---- MODULE Spec2Model ----
(***************************************************************************)
(* Model of UliAcceleration/SignalProcessing/SlidingWindow.py: the window  *)
(* offset enumeration and the six sliding-window kernels (RMS, integral,   *)
(* average, each plain and with a window/weights vector).                  *)
(*                                                                         *)
(* Numbers: the sequence and the weights hold integers; sums and products  *)
(* are exact. A division yields a reduced fraction [num, den], or NaN/Inf  *)
(* for a zero divisor as IEEE division does; the square root is kept as    *)
(* the same fraction tagged "sqrt". Floating-point rounding is not         *)
(* modelled.                                                               *)
(*                                                                         *)
(* A state is one call in progress: its arguments, the locals of the       *)
(* public function and of the kernel it runs, and what it returned or      *)
(* raised. window_size and shift_size range over non-negative integers.    *)
(***************************************************************************)
EXTENDS Integers, Sequences, FiniteSets, TLC

\* ---------------------------------------------------------------- bounds
MaxLen == 5
MaxWindowSize == 3
MaxShiftSize == 3
MaxWeightsLen == 3

DataValues == {-1, 2}
WeightValues == {-1, 1}

\* ------------------------------------------------------ value vocabulary
\* an optional argument or value: None, or Some(x) holding x
None == <<>>
Some(x) == <<x>>

\* non-finite results of an IEEE division by zero
NaN == [kind |-> "nan", num |-> 0, den |-> 0]
PosInf == [kind |-> "inf", num |-> 1, den |-> 0]
NegInf == [kind |-> "inf", num |-> -1, den |-> 0]

NoError == "no error"
ChunksizeError == "ValueError: Chunksize must not be zero"
ShiftsizeError == "ValueError: Shiftsize must not be zero"
BroadcastValueError == "ValueError: unable to broadcast"

IsValueError(e) == e \in {ChunksizeError, ShiftsizeError, BroadcastValueError}

SeqsUpTo(S, n) == UNION {[1..k -> S] : k \in 0..n}

Min(a, b) == IF a < b THEN a ELSE b
Max(a, b) == IF a > b THEN a ELSE b
Abs(a) == IF a < 0 THEN -a ELSE a

RECURSIVE GCD(_, _)
GCD(a, b) == IF b = 0 THEN a ELSE GCD(b, a % b)

\* ------------------------------------------------- numeric primitives
\* float division a / b of two exactly representable numbers
Div(a, b) ==
    IF b = 0
    THEN IF a = 0 THEN NaN ELSE IF a > 0 THEN PosInf ELSE NegInf
    ELSE LET g == GCD(Abs(a), Abs(b))
             s == IF b < 0 THEN -1 ELSE 1
         IN  [kind |-> "fin", num |-> (s * a) \div g, den |-> (s * b) \div g]

\* an exactly representable number as a float
Float(a) == Div(a, 1)

\* float division q / b of a float by an exactly representable number
FDiv(q, b) ==
    IF q.kind = "fin" THEN Div(q.num, q.den * b)
    ELSE IF q.kind = "inf" /\ b < 0 THEN [q EXCEPT !.num = -q.num]
    ELSE q

\* np.sqrt of a non-negative quantity, kept symbolic
Sqrt(q) == IF q.kind = "fin" THEN [q EXCEPT !.kind = "sqrt"] ELSE q

RECURSIVE PySum(_)
PySum(a) == IF Len(a) = 0 THEN 0 ELSE a[1] + PySum(Tail(a))

\* np.mean(a): sum divided by the number of elements (nan for no elements)
PyMean(a) == Div(PySum(a), Len(a))

\* np.square(a), element-wise
PySquare(a) == [k \in 1..Len(a) |-> a[k] * a[k]]

\* a[lo:hi] for 0 <= lo: bounds are clipped to the array
PySlice(a, lo, hi) ==
    LET l == Min(lo, Len(a))
        h == Max(l, Min(hi, Len(a)))
    IN  [k \in 1..(h - l) |-> a[l + k]]

\* whether 1-d arrays of lengths m and n broadcast against each other
Broadcastable(m, n) == m = n \/ m = 1 \/ n = 1

\* a * b with numpy broadcasting of 1-d arrays (for Broadcastable lengths)
PyMul(a, b) ==
    IF Len(a) = Len(b) THEN [k \in 1..Len(a) |-> a[k] * b[k]]
    ELSE IF Len(a) = 1 THEN [k \in 1..Len(b) |-> a[1] * b[k]]
    ELSE [k \in 1..Len(a) |-> a[k] * b[1]]

\* np.zeros(n)
PyZeros(n) == [k \in 1..n |-> Float(0)]

\* len(range(start, stop, step)) for step > 0
PyRangeLen(start, stop, step) ==
    IF start < stop THEN ((stop - start - 1) \div step) + 1 ELSE 0

\* list(range(start, stop, step)) for step > 0, by iteration
RECURSIVE PyRangeList(_, _, _)
PyRangeList(start, stop, step) ==
    IF start < stop THEN <<start>> \o PyRangeList(start + step, stop, step)
    ELSE <<>>

\* ------------------------------------------- _sliding_window_chunkoffsets
\* slip: the window_size check is missing
_sliding_window_chunkoffsets_raise_noChunksizeCheck(window_size, shift_size) ==
    IF shift_size = 0 THEN ShiftsizeError
    ELSE NoError

\* the exception raised by the parameter checks, NoError when they pass
_sliding_window_chunkoffsets_raise(window_size, shift_size) ==
    IF window_size = 0 THEN ChunksizeError
    ELSE IF shift_size = 0 THEN ShiftsizeError
    ELSE NoError

\* slip: stop is one short, the last full window is dropped
_sliding_window_chunkoffsets_stopShort(n, window_size, shift_size) ==
    [start |-> 0, stop |-> n - window_size, step |-> shift_size]

\* slip: the parentheses around window_size - 1 are missing
_sliding_window_chunkoffsets_noParens(n, window_size, shift_size) ==
    [start |-> 0, stop |-> n - window_size - 1, step |-> shift_size]

\* slip: window_size - 1 is added instead of subtracted
_sliding_window_chunkoffsets_plus(n, window_size, shift_size) ==
    [start |-> 0, stop |-> n + (window_size - 1), step |-> shift_size]

\* the range object returned when the checks pass
_sliding_window_chunkoffsets(n, window_size, shift_size) ==
    [start |-> 0, stop |-> n - (window_size - 1), step |-> shift_size]

\* len(_sliding_window_chunkoffsets(data, window_size, shift_size))
NumChunks(n, window_size, shift_size) ==
    LET r == _sliding_window_chunkoffsets(n, window_size, shift_size)
    IN  PyRangeLen(r.start, r.stop, r.step)

\* ------------------------------------------------------------ kernels
\* slip: the first window starts one shift late
Ofs_fromOne(i, shift_size) == (i + 1) * shift_size

\* ofs = i * shift_size
Ofs(i, shift_size) == i * shift_size

\* result[i] = np.sqrt(np.mean(square_arr[ofs:ofs + size]))
_numba_sliding_window_rms_body(result, square_arr, i, size, shift_size) ==
    LET ofs == Ofs(i, shift_size)
    IN  [result EXCEPT ![i + 1] = Sqrt(PyMean(PySlice(square_arr, ofs, ofs + size)))]

\* result[i] = np.sqrt(np.mean(square_arr[ofs:ofs + size] * window_squared))
_numba_sliding_window_rms_with_window_body(result, square_arr, window_squared, i, size, shift_size) ==
    LET ofs == Ofs(i, shift_size)
    IN  [result EXCEPT ![i + 1] =
            Sqrt(PyMean(PyMul(PySlice(square_arr, ofs, ofs + size), window_squared)))]

\* slip: the window is not squared
WindowSquared_unsquared(w) == w

\* window_squared = window * window
WindowSquared(w) == PyMul(w, w)

\* result[i] = np.sum(data[ofs:ofs + size])
_numba_sliding_window_average_body(result, d, i, size, shift_size) ==
    LET ofs == Ofs(i, shift_size)
    IN  [result EXCEPT ![i + 1] = Float(PySum(PySlice(d, ofs, ofs + size)))]

\* slip: divides by the number of chunks
_numba_sliding_window_average_return_byCount(result, size) ==
    [k \in 1..Len(result) |-> FDiv(result[k], Len(result))]

\* return result / size
_numba_sliding_window_average_return(result, size) ==
    [k \in 1..Len(result) |-> FDiv(result[k], size)]

\* result[i] = np.sum(data[ofs:ofs + size] * window)
_numba_sliding_window_average_with_weights_body(result, d, w, i, size, shift_size) ==
    LET ofs == Ofs(i, shift_size)
    IN  [result EXCEPT ![i + 1] = Float(PySum(PyMul(PySlice(d, ofs, ofs + size), w)))]

\* slip: normalises by the number of weights
_numba_sliding_window_average_with_weights_return_bySize(result, w) ==
    [k \in 1..Len(result) |-> FDiv(result[k], Len(w))]

\* return result / np.sum(window)
_numba_sliding_window_average_with_weights_return(result, w) ==
    [k \in 1..Len(result) |-> FDiv(result[k], PySum(w))]

\* slip: the chunk starts at i instead of ofs
_numba_sliding_window_integral_with_window_body_noShift(result, d, w, i, size, shift_size) ==
    [result EXCEPT ![i + 1] = Float(PySum(PyMul(PySlice(d, i, i + size), w)))]

\* result[i] = np.sum(data[ofs:ofs + size] * window)
_numba_sliding_window_integral_with_window_body(result, d, w, i, size, shift_size) ==
    LET ofs == Ofs(i, shift_size)
    IN  [result EXCEPT ![i + 1] = Float(PySum(PyMul(PySlice(d, ofs, ofs + size), w)))]

\* result[i] = np.sum(data[ofs:ofs + size])
_numba_sliding_window_integral_body(result, d, i, size, shift_size) ==
    LET ofs == Ofs(i, shift_size)
    IN  [result EXCEPT ![i + 1] = Float(PySum(PySlice(d, ofs, ofs + size)))]

\* ------------------------------------------- kernels run to completion
\* the loop of _numba_sliding_window_rms from iteration i on
RECURSIVE _numba_sliding_window_rms_loop(_, _, _, _, _, _)
_numba_sliding_window_rms_loop(result, square_arr, i, nchunks, size, shift_size) ==
    IF i >= nchunks THEN result
    ELSE _numba_sliding_window_rms_loop(
             _numba_sliding_window_rms_body(result, square_arr, i, size, shift_size),
             square_arr, i + 1, nchunks, size, shift_size)

_numba_sliding_window_rms(d, nchunks, size, shift_size) ==
    _numba_sliding_window_rms_loop(PyZeros(nchunks), PySquare(d), 0, nchunks, size, shift_size)

\* the loop of _numba_sliding_window_average from iteration i on
RECURSIVE _numba_sliding_window_average_loop(_, _, _, _, _, _)
_numba_sliding_window_average_loop(result, d, i, nchunks, size, shift_size) ==
    IF i >= nchunks THEN result
    ELSE _numba_sliding_window_average_loop(
             _numba_sliding_window_average_body(result, d, i, size, shift_size),
             d, i + 1, nchunks, size, shift_size)

_numba_sliding_window_average(d, nchunks, size, shift_size) ==
    _numba_sliding_window_average_return(
        _numba_sliding_window_average_loop(PyZeros(nchunks), d, 0, nchunks, size, shift_size),
        size)

\* the loop of _numba_sliding_window_integral_with_window from iteration i on
\* (for a window that broadcasts against every chunk)
RECURSIVE _numba_sliding_window_integral_with_window_loop(_, _, _, _, _, _, _)
_numba_sliding_window_integral_with_window_loop(result, d, w, i, nchunks, size, shift_size) ==
    IF i >= nchunks THEN result
    ELSE _numba_sliding_window_integral_with_window_loop(
             _numba_sliding_window_integral_with_window_body(result, d, w, i, size, shift_size),
             d, w, i + 1, nchunks, size, shift_size)

_numba_sliding_window_integral_with_window(d, nchunks, w, size, shift_size) ==
    _numba_sliding_window_integral_with_window_loop(
        PyZeros(nchunks), d, w, 0, nchunks, size, shift_size)

\* the loop of _numba_sliding_window_integral from iteration i on
RECURSIVE _numba_sliding_window_integral_loop(_, _, _, _, _, _)
_numba_sliding_window_integral_loop(result, d, i, nchunks, size, shift_size) ==
    IF i >= nchunks THEN result
    ELSE _numba_sliding_window_integral_loop(
             _numba_sliding_window_integral_body(result, d, i, size, shift_size),
             d, i + 1, nchunks, size, shift_size)

_numba_sliding_window_integral(d, nchunks, size, shift_size) ==
    _numba_sliding_window_integral_loop(PyZeros(nchunks), d, 0, nchunks, size, shift_size)

\* the array public function f returns for window=None (window_size, shift_size > 0)
Unwindowed(f, d, ws, ss) ==
    LET n == NumChunks(Len(d), ws, ss)
    IN  IF n = 0 THEN <<>>
        ELSE IF f = "sliding_window_rms" THEN _numba_sliding_window_rms(d, n, ws, ss)
        ELSE IF f = "sliding_window_integral" THEN _numba_sliding_window_integral(d, n, ws, ss)
        ELSE _numba_sliding_window_average(d, n, ws, ss)

\* the array sliding_window_integral returns for a window of window_size elements
WindowedIntegral(d, w, ws, ss) ==
    LET n == NumChunks(Len(d), ws, ss)
    IN  IF n = 0 THEN <<>>
        ELSE _numba_sliding_window_integral_with_window(d, n, w, ws, ss)

\* ---------------------------------------------------------------- state
VARIABLES
    pc,              \* "idle", the kernel being run, "done" or "raised"
    fn,              \* the public function called
    data,            \* argument: the sequence
    window,          \* argument: None or Some(window / weights vector)
    window_size,     \* argument
    shift_size,      \* argument
    num_chunks,      \* local of the public function
    i,               \* kernel loop counter
    result,          \* kernel result buffer
    square_arr,      \* kernel local (RMS kernels)
    window_squared,  \* kernel local (windowed RMS kernel)
    visited,         \* history: ofs of every loop iteration run
    chunklens,       \* history: length of the chunk each iteration read
    touched,         \* history: an element of data or window has been read
    ret,             \* None or Some(returned array)
    err              \* NoError or the exception raised

args == <<fn, data, window, window_size, shift_size>>
locals == <<i, result, square_arr, window_squared>>
history == <<visited, chunklens, touched>>
vars == <<pc, args, num_chunks, locals, history, ret, err>>

Kernels == {"_numba_sliding_window_rms", "_numba_sliding_window_rms_with_window",
            "_numba_sliding_window_average", "_numba_sliding_window_average_with_weights",
            "_numba_sliding_window_integral", "_numba_sliding_window_integral_with_window"}

DataArrays == SeqsUpTo(DataValues, MaxLen)
WindowArgs == {None} \cup {Some(w) : w \in SeqsUpTo(WeightValues, MaxWeightsLen)}
WindowSizes == 0..MaxWindowSize
ShiftSizes == 0..MaxShiftSize

Init ==
    /\ pc = "idle"
    /\ fn = "none"
    /\ data = <<>>
    /\ window = None
    /\ window_size = 0
    /\ shift_size = 0
    /\ num_chunks = 0
    /\ i = 0
    /\ result = <<>>
    /\ square_arr = <<>>
    /\ window_squared = <<>>
    /\ visited = <<>>
    /\ chunklens = <<>>
    /\ touched = FALSE
    /\ ret = None
    /\ err = NoError

\* the call binds its arguments
Bind(f, d, w, ws, ss) ==
    /\ fn' = f
    /\ data' = d
    /\ window' = w
    /\ window_size' = ws
    /\ shift_size' = ss

\* an exception leaves the call
Raise(e) ==
    /\ pc' = "raised"
    /\ err' = e
    /\ ret' = None

\* a return statement leaves the call
Return(value) ==
    /\ pc' = "done"
    /\ ret' = Some(value)
    /\ err' = NoError

\* entering a kernel: result = np.zeros(nchunks), then the loop at i = 0
EnterKernel(k, nchunks, sq, wsq, reads) ==
    /\ pc' = k
    /\ i' = 0
    /\ result' = PyZeros(nchunks)
    /\ square_arr' = sq
    /\ window_squared' = wsq
    /\ touched' = reads
    /\ UNCHANGED <<visited, chunklens, ret, err>>

\* ------------------------------------------------------ public functions
\* sliding_window_rms(data, window, window_size, shift_size), up to the kernel loop
sliding_window_rms ==
    /\ pc = "idle"
    /\ \E d \in DataArrays, w \in WindowArgs, ws \in WindowSizes, ss \in ShiftSizes :
        /\ Bind("sliding_window_rms", d, w, ws, ss)
        /\ LET e == _sliding_window_chunkoffsets_raise(ws, ss)
               n == NumChunks(Len(d), ws, ss)
           IN  IF e # NoError
               THEN /\ Raise(e)
                    /\ UNCHANGED <<num_chunks, locals, history>>
               ELSE /\ num_chunks' = n
                    /\ IF n = 0
                       THEN /\ Return(<<>>)
                            /\ UNCHANGED <<locals, history>>
                       ELSE IF w = None
                       THEN EnterKernel("_numba_sliding_window_rms", n, PySquare(d), <<>>, TRUE)
                       ELSE EnterKernel("_numba_sliding_window_rms_with_window", n, PySquare(d), WindowSquared(w[1]), TRUE)

\* sliding_window_integral(data, window, window_size, shift_size), up to the kernel loop
sliding_window_integral ==
    /\ pc = "idle"
    /\ \E d \in DataArrays, w \in WindowArgs, ws \in WindowSizes, ss \in ShiftSizes :
        /\ Bind("sliding_window_integral", d, w, ws, ss)
        /\ LET e == _sliding_window_chunkoffsets_raise(ws, ss)
               n == NumChunks(Len(d), ws, ss)
           IN  IF e # NoError
               THEN /\ Raise(e)
                    /\ UNCHANGED <<num_chunks, locals, history>>
               ELSE /\ num_chunks' = n
                    /\ IF n = 0
                       THEN /\ Return(<<>>)
                            /\ UNCHANGED <<locals, history>>
                       ELSE IF w = None
                       THEN EnterKernel("_numba_sliding_window_integral", n, <<>>, <<>>, FALSE)
                       ELSE EnterKernel("_numba_sliding_window_integral_with_window", n, <<>>, <<>>, FALSE)

\* sliding_window_average(data, weights, window_size, shift_size), up to the kernel loop
sliding_window_average ==
    /\ pc = "idle"
    /\ \E d \in DataArrays, w \in WindowArgs, ws \in WindowSizes, ss \in ShiftSizes :
        /\ Bind("sliding_window_average", d, w, ws, ss)
        /\ LET e == _sliding_window_chunkoffsets_raise(ws, ss)
               n == NumChunks(Len(d), ws, ss)
           IN  IF e # NoError
               THEN /\ Raise(e)
                    /\ UNCHANGED <<num_chunks, locals, history>>
               ELSE /\ num_chunks' = n
                    /\ IF n = 0
                       THEN /\ Return(<<>>)
                            /\ UNCHANGED <<locals, history>>
                       ELSE IF w = None
                       THEN EnterKernel("_numba_sliding_window_average", n, <<>>, <<>>, FALSE)
                       ELSE EnterKernel("_numba_sliding_window_average_with_weights", n, <<>>, <<>>, FALSE)

\* sliding_window_offsets(data, window_size, shift_size)
sliding_window_offsets ==
    /\ pc = "idle"
    /\ \E d \in DataArrays, ws \in WindowSizes, ss \in ShiftSizes :
        /\ Bind("sliding_window_offsets", d, None, ws, ss)
        /\ LET e == _sliding_window_chunkoffsets_raise(ws, ss)
               r == _sliding_window_chunkoffsets(Len(d), ws, ss)
           IN  IF e # NoError
               THEN Raise(e)
               ELSE Return(PyRangeList(r.start, r.stop, r.step))
        /\ UNCHANGED <<num_chunks, locals, history>>

\* -------------------------------------------------------- kernel steps
\* one loop iteration of kernel k that stores newresult
Iterate(k, newresult) ==
    /\ pc = k
    /\ i < num_chunks
    /\ result' = newresult
    /\ i' = i + 1
    /\ visited' = Append(visited, Ofs(i, shift_size))
    /\ chunklens' = Append(chunklens,
            Len(PySlice(data, Ofs(i, shift_size), Ofs(i, shift_size) + window_size)))
    /\ touched' = TRUE
    /\ UNCHANGED <<pc, args, num_chunks, square_arr, window_squared, ret, err>>

\* one loop iteration of kernel k whose chunk * w fails to broadcast
IterateRaise(k) ==
    /\ pc = k
    /\ i < num_chunks
    /\ Raise(BroadcastValueError)
    /\ visited' = Append(visited, Ofs(i, shift_size))
    /\ chunklens' = Append(chunklens,
            Len(PySlice(data, Ofs(i, shift_size), Ofs(i, shift_size) + window_size)))
    /\ UNCHANGED <<args, num_chunks, locals, touched>>

\* the return statement of kernel k after the loop
KernelReturn(k, value) ==
    /\ pc = k
    /\ i >= num_chunks
    /\ Return(value)
    /\ UNCHANGED <<args, num_chunks, locals, history>>

\* length of the chunk data[ofs:ofs + size] of the current iteration
ChunkLen == Len(PySlice(data, Ofs(i, shift_size), Ofs(i, shift_size) + window_size))

_numba_sliding_window_rms_iter ==
    Iterate("_numba_sliding_window_rms",
            _numba_sliding_window_rms_body(result, square_arr, i, window_size, shift_size))

_numba_sliding_window_rms_ret ==
    KernelReturn("_numba_sliding_window_rms", result)

_numba_sliding_window_rms_with_window_iter ==
    IF Broadcastable(ChunkLen, Len(window_squared))
    THEN Iterate("_numba_sliding_window_rms_with_window",
                 _numba_sliding_window_rms_with_window_body(
                     result, square_arr, window_squared, i, window_size, shift_size))
    ELSE IterateRaise("_numba_sliding_window_rms_with_window")

_numba_sliding_window_rms_with_window_ret ==
    KernelReturn("_numba_sliding_window_rms_with_window", result)

_numba_sliding_window_average_iter ==
    Iterate("_numba_sliding_window_average",
            _numba_sliding_window_average_body(result, data, i, window_size, shift_size))

_numba_sliding_window_average_ret ==
    KernelReturn("_numba_sliding_window_average",
                 _numba_sliding_window_average_return(result, window_size))

_numba_sliding_window_average_with_weights_iter ==
    /\ window # None
    /\ IF Broadcastable(ChunkLen, Len(window[1]))
       THEN Iterate("_numba_sliding_window_average_with_weights",
                    _numba_sliding_window_average_with_weights_body(
                        result, data, window[1], i, window_size, shift_size))
       ELSE IterateRaise("_numba_sliding_window_average_with_weights")

_numba_sliding_window_average_with_weights_ret ==
    /\ window # None
    /\ KernelReturn("_numba_sliding_window_average_with_weights",
                    _numba_sliding_window_average_with_weights_return(result, window[1]))

_numba_sliding_window_integral_with_window_iter ==
    /\ window # None
    /\ IF Broadcastable(ChunkLen, Len(window[1]))
       THEN Iterate("_numba_sliding_window_integral_with_window",
                    _numba_sliding_window_integral_with_window_body(
                        result, data, window[1], i, window_size, shift_size))
       ELSE IterateRaise("_numba_sliding_window_integral_with_window")

_numba_sliding_window_integral_with_window_ret ==
    KernelReturn("_numba_sliding_window_integral_with_window", result)

_numba_sliding_window_integral_iter ==
    Iterate("_numba_sliding_window_integral",
            _numba_sliding_window_integral_body(result, data, i, window_size, shift_size))

_numba_sliding_window_integral_ret ==
    KernelReturn("_numba_sliding_window_integral", result)

Next ==
    \/ sliding_window_rms
    \/ sliding_window_integral
    \/ sliding_window_average
    \/ sliding_window_offsets
    \/ _numba_sliding_window_rms_iter
    \/ _numba_sliding_window_rms_ret
    \/ _numba_sliding_window_rms_with_window_iter
    \/ _numba_sliding_window_rms_with_window_ret
    \/ _numba_sliding_window_average_iter
    \/ _numba_sliding_window_average_ret
    \/ _numba_sliding_window_average_with_weights_iter
    \/ _numba_sliding_window_average_with_weights_ret
    \/ _numba_sliding_window_integral_with_window_iter
    \/ _numba_sliding_window_integral_with_window_ret
    \/ _numba_sliding_window_integral_iter
    \/ _numba_sliding_window_integral_ret

Spec == Init /\ [][Next]_vars

TypeOK ==
    /\ pc \in {"idle", "done", "raised"} \cup Kernels
    /\ i \in 0..num_chunks
    /\ Len(visited) = Len(chunklens)
    /\ (pc = "done") = (ret # None)
    /\ (pc = "raised") = (err # NoError)

\* the stepwise kernels return what the kernels run to completion return
RunAgreement ==
    (pc = "done" /\ window = None /\ fn # "sliding_window_offsets")
        => ret = Some(Unwindowed(fn, data, window_size, shift_size))

\* ---------------------------------------------------------------- claims
KernelFns == {"sliding_window_rms", "sliding_window_integral", "sliding_window_average"}

Called == pc # "idle"
ValidSizes == window_size > 0 /\ shift_size > 0

\* the multiples o of shift_size with o + window_size <= n
ValidOffsets(n, ws, ss) == {o \in 0..n : o % ss = 0 /\ o + ws <= n}

\* ceil(a / b) for b > 0
Ceil(a, b) == -((-a) \div b)

\* C1: for window_size > 0 and shift_size > 0, sliding_window_offsets returns
\* exactly the ordered sequence 0, shift_size, 2*shift_size, ... of every
\* multiple o of shift_size with o + window_size <= n, and no other value.
C1_OffsetsExact ==
    (pc = "done" /\ fn = "sliding_window_offsets" /\ ValidSizes) =>
        LET offs == ret[1]
            want == ValidOffsets(Len(data), window_size, shift_size)
        IN  /\ Len(offs) = Cardinality(want)
            /\ {offs[k] : k \in 1..Len(offs)} = want
            /\ \A k \in 1..Len(offs) : offs[k] = (k - 1) * shift_size

C1_Witness ==
    /\ pc = "done" /\ fn = "sliding_window_offsets"
    /\ shift_size = 2 /\ window_size = 2
    /\ ret = Some(<<0, 2>>)

\* C2: a call of the offset enumeration or of a kernel function with
\* window_size = 0 or shift_size = 0 raises the ValueError of the parameter
\* check, for every sequence length, before any element of the sequence or
\* of the window is read and before any result exists.
C2_ZeroSizeRaises ==
    (Called /\ (window_size = 0 \/ shift_size = 0)) =>
        /\ pc = "raised"
        /\ err \in {ChunksizeError, ShiftsizeError}
        /\ IsValueError(err)
        /\ ~touched
        /\ visited = <<>>
        /\ result = <<>>
        /\ ret = None

C2_Witness ==
    /\ pc = "raised" /\ fn = "sliding_window_average"
    /\ shift_size = 0 /\ window_size > Len(data)
    /\ window # None
    /\ err = ShiftsizeError

\* C3 (as claimed): a windowed call whose window length differs from
\* window_size raises a ValueError, for every sequence length, before the
\* loop starts and before any part of the result is computed.
C3_WindowLengthValidated ==
    (Called /\ fn \in KernelFns /\ window # None /\ Len(window[1]) # window_size) =>
        /\ pc = "raised"
        /\ IsValueError(err)
        /\ visited = <<>>
        /\ result = <<>>

\* C4: for window_size > 0 and shift_size > 0 and a sequence that is empty
\* or shorter than window_size, each kernel function returns an empty
\* result, raises nothing and runs no loop iteration.
C4_ShortInputEmpty ==
    (Called /\ fn \in KernelFns /\ ValidSizes /\ Len(data) < window_size) =>
        /\ pc = "done"
        /\ ret = Some(<<>>)
        /\ err = NoError
        /\ visited = <<>>
        /\ i = 0

C4_Witness ==
    /\ pc = "done" /\ fn = "sliding_window_rms"
    /\ Len(data) = 1 /\ window_size = 2 /\ shift_size = 1
    /\ ret = Some(<<>>)

\* the statistic of one window, computed from the window alone
Statistic(f, chunk) ==
    IF f = "sliding_window_integral" THEN Float(PySum(chunk))
    ELSE IF f = "sliding_window_average" THEN Div(PySum(chunk), Len(chunk))
    ELSE Sqrt(Div(PySum([k \in 1..Len(chunk) |-> chunk[k] * chunk[k]]), Len(chunk)))

\* the output of the offset enumeration for the current arguments
Offsets ==
    LET r == _sliding_window_chunkoffsets(Len(data), window_size, shift_size)
    IN  PyRangeList(r.start, r.stop, r.step)

\* C5: for window_size > 0 and shift_size > 0 the unweighted kernels return
\* one result per enumerated offset, in offset order, and result k is the
\* statistic (sum; sum / window_size; sqrt of the mean of squares) of
\* exactly data[offsets[k] : offsets[k] + window_size]; a sequence of
\* window_size elements gives one result, over the whole sequence.
C5_UnweightedResults ==
    (pc = "done" /\ fn \in KernelFns /\ window = None /\ ValidSizes) =>
        LET offs == Offsets
            res == ret[1]
        IN  /\ Len(res) = Len(offs)
            /\ \A k \in 1..Len(offs) :
                /\ offs[k] + window_size <= Len(data)
                /\ res[k] = Statistic(fn, SubSeq(data, offs[k] + 1, offs[k] + window_size))
            /\ Len(data) = window_size => res = <<Statistic(fn, data)>>

C5_Witness ==
    /\ pc = "done" /\ fn = "sliding_window_rms" /\ window = None
    /\ data = <<2, -1, 2, 2>> /\ window_size = 2 /\ shift_size = 2
    /\ ret = Some(<<[kind |-> "sqrt", num |-> 5, den |-> 2],
                    [kind |-> "sqrt", num |-> 4, den |-> 1]>>)

\* C6: every loop iteration of every kernel starts its window at an ofs
\* with 0 <= ofs and ofs + window_size <= len(data), so every chunk read has
\* window_size elements; the offsets visited start at 0 and strictly
\* increase.
C6_WindowsInBounds ==
    /\ \A k \in 1..Len(visited) :
        /\ 0 <= visited[k]
        /\ visited[k] + window_size <= Len(data)
        /\ chunklens[k] = window_size
        /\ k = 1 => visited[k] = 0
        /\ k > 1 => visited[k] > visited[k - 1]
    /\ (pc \in Kernels /\ i < num_chunks) =>
            Ofs(i, shift_size) + window_size <= Len(data)

C6_Witness ==
    /\ pc = "done" /\ fn = "sliding_window_integral"
    /\ Len(visited) = 2
    /\ visited[2] + window_size = Len(data)
    /\ window_size = 3

\* C7: for window_size > 0 and shift_size > 0 the number of offsets (and
\* num_chunks of every kernel function) is
\* max(0, ceil((length - window_size + 1) / shift_size)) when
\* length >= window_size and 0 otherwise.
C7_OffsetCount ==
    (Called /\ ValidSizes) =>
        LET n == Len(data)
            count == IF fn = "sliding_window_offsets" THEN Len(ret[1]) ELSE num_chunks
        IN  count = IF n >= window_size
                    THEN Max(0, Ceil(n - window_size + 1, shift_size))
                    ELSE 0

C7_Witness ==
    /\ pc = "done" /\ fn = "sliding_window_average"
    /\ Len(data) = 4 /\ window_size = 1 /\ shift_size = 3
    /\ num_chunks = 2

Ones(n) == [k \in 1..n |-> 1]

\* C8: for window_size > 0 and shift_size > 0, a kernel function called with
\* a window of window_size ones returns the same array (same length, same
\* value at every index) as the same function called without a window.
C8_OnesWindowIsNeutral ==
    (Called /\ fn \in KernelFns /\ ValidSizes /\ window = Some(Ones(window_size))
            /\ pc \in {"done", "raised"}) =>
        /\ pc = "done"
        /\ ret = Some(Unwindowed(fn, data, window_size, shift_size))

C8_Witness ==
    /\ pc = "done" /\ fn = "sliding_window_average"
    /\ window = Some(<<1, 1>>) /\ window_size = 2 /\ shift_size = 1
    /\ Len(ret[1]) = 3

\* float product q * b of a float by an exactly representable number
FMul(q, b) ==
    IF q.kind = "fin" THEN Div(q.num * b, q.den)
    ELSE IF b = 0 \/ q.kind = "nan" THEN NaN
    ELSE IF b < 0 THEN [q EXCEPT !.num = -q.num]
    ELSE q

\* sum(data[ofs : ofs + len(w)] * w), term by term
Dot(d, ofs, w) ==
    PySum([j \in 1..Len(w) |-> d[ofs + j] * w[j]])

WeightsFit == window # None /\ Len(window[1]) = window_size

\* C9 (as claimed): for weights of window_size elements,
\* weighted_average[k] * sum(weights) = windowed_integral[k] for every k.
C9_AverageTimesSumIsIntegral ==
    (pc = "done" /\ fn = "sliding_window_average" /\ WeightsFit) =>
        LET integ == WindowedIntegral(data, window[1], window_size, shift_size)
        IN  /\ Len(ret[1]) = Len(integ)
            /\ \A k \in 1..Len(integ) : FMul(ret[1][k], PySum(window[1])) = integ[k]

\* C9 (amended): for weights of window_size elements, the windowed integral
\* result k is sum(window_k * weights), the weighted average result k is
\* that sum divided by sum(weights), and
\* weighted_average[k] * sum(weights) = windowed_integral[k] for every k
\* provided sum(weights) # 0.
C9_AverageIsIntegralOverSum ==
    /\ (pc = "done" /\ fn = "sliding_window_integral" /\ WeightsFit) =>
        /\ Len(ret[1]) = num_chunks
        /\ \A k \in 1..Len(ret[1]) :
            /\ (k - 1) * shift_size + window_size <= Len(data)
            /\ ret[1][k] = Float(Dot(data, (k - 1) * shift_size, window[1]))
    /\ (pc = "done" /\ fn = "sliding_window_average" /\ WeightsFit) =>
        LET integ == WindowedIntegral(data, window[1], window_size, shift_size)
            total == PySum(window[1])
        IN  /\ Len(ret[1]) = Len(integ)
            /\ \A k \in 1..Len(integ) :
                /\ (k - 1) * shift_size + window_size <= Len(data)
                /\ ret[1][k] = Div(Dot(data, (k - 1) * shift_size, window[1]), total)
                /\ total # 0 => FMul(ret[1][k], total) = integ[k]

C9_Witness ==
    /\ pc = "done" /\ fn = "sliding_window_average"
    /\ window = Some(<<1, -1, -1>>) /\ window_size = 3 /\ shift_size = 1
    /\ data = <<2, -1, 2, 2>>
    /\ ret = Some(<<Div(1, -1), Div(-5, -1)>>)

\* C10: for a window of window_size elements, the quantity under the square
\* root in the windowed RMS kernel equals the mean of the squares of
\* data[ofs : ofs + window_size] * window: the windowed RMS is the RMS of
\* the tapered window.
C10_WindowedRmsIsRmsOfTapered ==
    (pc = "done" /\ fn = "sliding_window_rms" /\ WeightsFit) =>
        /\ Len(ret[1]) = num_chunks
        /\ \A k \in 1..Len(ret[1]) :
            LET ofs == (k - 1) * shift_size
            IN  /\ ofs + window_size <= Len(data)
                /\ ret[1][k] = Statistic(fn,
                        [j \in 1..window_size |-> data[ofs + j] * window[1][j]])

C10_Witness ==
    /\ pc = "done" /\ fn = "sliding_window_rms"
    /\ window = Some(<<-1, 1>>) /\ window_size = 2 /\ shift_size = 2
    /\ data = <<2, -1, 2, 2>>
    /\ ret = Some(<<Sqrt(Div(5, 2)), Sqrt(Div(8, 2))>>)

====
